---- MODULE Spec2Model ----
(***************************************************************************)
(* Streaming chat completion of the hackersera-ai-sdk Go client            *)
(* (client.go, ChatCompletionStream): one background goroutine that sends  *)
(* the request, validates the status, scans the text-event stream line by  *)
(* line and feeds two channels (chunks, errs), together with the caller    *)
(* (context cancellation), the consumer of the two channels and the server *)
(* that produces the body.                                                 *)
(*                                                                         *)
(* Strings that the code inspects (stream lines) are sequences of          *)
(* one-character strings, so that HasPrefix / TrimPrefix / the sentinel    *)
(* comparison are computed.  A JSON object payload is abbreviated "{t}",   *)
(* where t stands for choices[0].delta.content of the chunk.               *)
(***************************************************************************)
EXTENDS Integers, Sequences, FiniteSets, TLC

\* ------------------------------------------------------------------ bounds
MaxLines == 3          \* longest enumerated body, in lines

\* ------------------------------------------------------- program constants
ChunksCap == 100       \* make(chan ChatStreamChunk, 100)
ErrsCap == 1           \* make(chan error, 1)
StatusOK == 200        \* http.StatusOK

\* ------------------------------------------------------------ stream lines
DataPrefix == <<"d", "a", "t", "a", ":", " ">>
DoneLiteral == <<"[", "D", "O", "N", "E", "]">>

BlankLine == <<>>
CommentLine == <<":", " ", "k">>
NoSpaceLine == <<"d", "a", "t", "a", ":", "{", "H", "}">>
DoneLine == DataPrefix \o DoneLiteral
FrameLine(t) == DataPrefix \o <<"{">> \o t \o <<"}">>
CorruptLine == DataPrefix \o <<"{", "H">>

Hello == <<"H">>
World == <<" ", "w">>
Empty == <<>>

LineKinds ==
  {BlankLine, NoSpaceLine, DoneLine, FrameLine(Hello), FrameLine(Empty), CorruptLine}

RECURSIVE SeqsUpTo(_, _)
SeqsUpTo(S, n) ==
  IF n = 0 THEN {<<>>}
  ELSE LET shorter == SeqsUpTo(S, n - 1)
       IN  shorter \cup {Append(s, x) : s \in {t \in shorter : Len(t) = n - 1}, x \in S}

\* the two streams of the documented scenarios, longer than MaxLines
HelloWorldWire ==
  <<FrameLine(Hello), BlankLine, FrameLine(Empty), FrameLine(World), DoneLine>>
CorruptBetweenWire ==
  <<CommentLine, FrameLine(Hello), CorruptLine, FrameLine(World), DoneLine>>

Wires == SeqsUpTo(LineKinds, MaxLines) \cup {HelloWorldWire, CorruptBetweenWire}

Endings == {"eof", "err"}

\* --------------------------------------------------------- error responses
BodyEnvelope == "{\"error\":{\"message\":\"bad key\",\"type\":\"invalid_request_error\"}}"
BodyNoError == "{}"
BodyText == "internal server error"
BodyEmpty == ""
ErrBodies == {BodyEnvelope, BodyNoError, BodyText, BodyEmpty}
Statuses == {200, 401, 500}

NoChunk == [nil |-> TRUE]

VARIABLES
  req,          \* the goroutine's copy of the ChatRequest
  urlOK,        \* c.baseURL + path parses as a URL
  connOK,       \* the connection can be established
  status,       \* resp.StatusCode
  errBody,      \* the body of a non-success response
  wire,         \* the lines of a success response's body, in wire order
  ending,       \* what follows the last line: end of input or a read failure
  ctxDone,      \* ctx.Done() is closed
  readAtCancel, \* lines the scanner had returned when ctx was cancelled (-1: never)
  pc,           \* position of the goroutine
  exit,         \* the return statement the goroutine left through
  pos,          \* lines the scanner has returned
  chunk,        \* the chunk being offered
  chunks,       \* the chunks channel
  errs,         \* the errs channel
  bodyClosed,   \* resp.Body.Close() has run
  panicked,     \* a send on a closed channel or a second close happened
  sent,         \* every chunk sent on chunks, in order
  errsSent,     \* every error sent on errs, in order
  received,     \* every chunk the consumer received, in order
  errsReceived, \* every error the consumer received, in order
  c,            \* the Client the method is called on
  method,       \* the method of Client that is called
  httpReq,      \* the *http.Request the call has built
  exchanges,    \* the calls of Do made so far: which http.Client, which request
  call,         \* a synchronous call: its position, its inputs and its results
  hdr,          \* the layered identity headers: defaults, overrides, outcome
  given,        \* the Stream field as the caller supplied it
  rawURL,       \* the baseURL argument NewClient was called with
  loop,         \* position of a consumer that runs the documented select loop
  messages,     \* the array behind req.Messages, which the caller's value shares
  reqBody       \* body: the marshalled request

inputs == <<req, urlOK, connOK, status, errBody, wire, ending>>
vars == <<req, urlOK, connOK, status, errBody, wire, ending, ctxDone,
          readAtCancel, pc,
          exit, pos, chunk, chunks, errs, bodyClosed, panicked, sent, errsSent,
          received, errsReceived, c, method, httpReq, exchanges, call, hdr,
          given, rawURL, loop, messages, reqBody>>

\* what the streaming goroutine never writes
syncVars == <<c, method, call, hdr, given, rawURL, loop, messages>>

\* ---------------------------------------------------------------- helpers
HasPrefix(s, prefix) ==
  Len(s) >= Len(prefix) /\ SubSeq(s, 1, Len(prefix)) = prefix

TrimPrefix(s, prefix) ==
  IF HasPrefix(s, prefix) THEN SubSeq(s, Len(prefix) + 1, Len(s)) ELSE s

\* the sentinel compared without its brackets
IsDoneBare(data) == data = <<"D", "O", "N", "E">>

IsDone(data) == data = DoneLiteral

\* json.Unmarshal([]byte(data), &chunk)
Unmarshal(data) ==
  IF /\ Len(data) >= 2
     /\ data[1] = "{"
     /\ data[Len(data)] = "}"
     /\ \A i \in 2..(Len(data) - 1) : data[i] \notin {"{", "}"}
  THEN [err |-> FALSE, chunk |-> [Content |-> SubSeq(data, 2, Len(data) - 1)]]
  ELSE [err |-> TRUE, chunk |-> NoChunk]

\* json.Unmarshal(body, &errResp)
UnmarshalErrorResponse(body) ==
  CASE body = BodyEnvelope ->
         [err |-> FALSE, Message |-> "bad key", Type |-> "invalid_request_error"]
    [] body = BodyNoError -> [err |-> FALSE, Message |-> "", Type |-> ""]
    [] OTHER -> [err |-> TRUE, Message |-> "", Type |-> ""]

\* a response without a body gives no error at all
parseErrorNilOnEmptyBody(statusCode, body) ==
  LET errResp == UnmarshalErrorResponse(body)
  IN  IF body = BodyEmpty
      THEN [kind |-> "nil"]
      ELSE IF errResp.err
      THEN [kind |-> "APIError", StatusCode |-> statusCode,
            Message |-> body, Type |-> "unknown_error"]
      ELSE [kind |-> "APIError", StatusCode |-> statusCode,
            Message |-> errResp.Message, Type |-> errResp.Type]

\* the body is never parsed: every error carries the raw text
parseErrorRawOnly(statusCode, body) ==
  [kind |-> "APIError", StatusCode |-> statusCode, Message |-> body,
   Type |-> "unknown_error"]

\* a body that does not parse is reported as the failure of the parse
parseErrorSurfacesParseFailure(statusCode, body) ==
  LET errResp == UnmarshalErrorResponse(body)
  IN  IF errResp.err
      THEN [kind |-> "wrapped", tag |-> "decode error response"]
      ELSE [kind |-> "APIError", StatusCode |-> statusCode,
            Message |-> errResp.Message, Type |-> errResp.Type]

parseError(statusCode, body) ==
  LET errResp == UnmarshalErrorResponse(body)
  IN  IF errResp.err
      THEN [kind |-> "APIError", StatusCode |-> statusCode,
            Message |-> body, Type |-> "unknown_error"]
      ELSE [kind |-> "APIError", StatusCode |-> statusCode,
            Message |-> errResp.Message, Type |-> errResp.Type]

Errorf(tag) == [kind |-> "wrapped", tag |-> tag]


\* every status below 500 taken for a success
StatusIsOKBelow500(statusCode) == statusCode < 500

StatusIsOK(statusCode) == statusCode = StatusOK

\* --------------------------------------------------------------- requests
StreamMethod == "ChatCompletionStream"

\* the synchronous methods of Client
SyncMethods ==
  {"ChatCompletion", "ListModels", "GetModel", "CreateEmbedding", "Health",
   "UploadDocument", "UploadDocuments", "ListDocuments", "GetDocument",
   "DeleteDocument", "Search", "GetUsage", "GetRecentUsage", "GetCacheStats", "Ready"}

\* the methods that marshal a request value into the body
HasBody(m) ==
  m \in {"ChatCompletion", StreamMethod, "CreateEmbedding", "UploadDocument",
         "UploadDocuments", "Search"}

\* every method calls c.setHeaders(httpReq)
CallsSetHeadersAlways(m) == m \in SyncMethods \cup {StreamMethod}

\* the methods that call c.setHeaders(httpReq)
CallsSetHeaders(m) == m \notin {"Health", "Ready"}

\* the statuses after which the method decodes the body instead of parseError
AcceptedStatuses(m) ==
  CASE m \in {"Health", "Ready"} -> {200, 503}
    [] m \in {"UploadDocument", "UploadDocuments"} -> {202, 200}
    [] OTHER -> {200}

HTTPMethod(m) ==
  CASE HasBody(m) -> "POST"
    [] m = "DeleteDocument" -> "DELETE"
    [] OTHER -> "GET"

\* the path of the method's endpoint, cut into its slashes and segments
Path(m) ==
  CASE m \in {"ChatCompletion", StreamMethod} -> <<"/", "v1", "/", "chat", "/", "completions">>
    [] m = "ListModels" -> <<"/", "v1", "/", "models">>
    [] m = "GetModel" -> <<"/", "v1", "/", "models", "/", "{id}">>
    [] m = "CreateEmbedding" -> <<"/", "v1", "/", "embeddings">>
    [] m = "Health" -> <<"/", "health">>
    [] m \in {"UploadDocument", "UploadDocuments", "ListDocuments"} ->
         <<"/", "v1", "/", "documents">>
    [] m \in {"GetDocument", "DeleteDocument"} -> <<"/", "v1", "/", "documents", "/", "{id}">>
    [] m = "Search" -> <<"/", "v1", "/", "search">>
    [] m = "GetUsage" -> <<"/", "v1", "/", "usage">>
    [] m = "GetRecentUsage" -> <<"/", "v1", "/", "usage", "/", "recent">>
    [] m = "GetCacheStats" -> <<"/", "v1", "/", "cache", "/", "stats">>
    [] m = "Ready" -> <<"/", "ready">>

\* json.Marshal(req) of a ChatRequest: Stream is tagged `json:"stream,omitempty"`
MarshalChatRequest(r, msgs) ==
  [stream |-> IF r.Stream THEN "true" ELSE "omitted", messages |-> msgs]

\* a body that is not a ChatRequest, and no body
OtherBody == [stream |-> "none"]

NoHeader == [h \in {} |-> ""]

\* Authorization is set without looking at the key
setHeadersAlwaysAuth(apiKey) ==
  ("Content-Type" :> "application/json") @@ ("Authorization" :> <<"Bearer ", apiKey>>)

\* c.setHeaders(req)
setHeaders(apiKey) ==
  IF apiKey # ""
  THEN ("Content-Type" :> "application/json") @@ ("Authorization" :> <<"Bearer ", apiKey>>)
  ELSE ("Content-Type" :> "application/json")

\* http.NewRequestWithContext(ctx, method, c.baseURL + path, body), with its headers
NewRequestWithContext(m, url, body, header) ==
  [method |-> HTTPMethod(m), url |-> url, body |-> body, header |-> header]

NoRequest == [nil |-> TRUE]

\* the content of req.Messages when the call is made, and after the caller edits it
CallMessages == "hi"
EditedMessages == "bye"

\* http.Client.Timeout in seconds: 5 * time.Minute, and the zero value (no timeout)
DefaultTimeout == 300
NoTimeout == 0

\* strings.TrimRight(s, cutset): every trailing character of cutset is removed
RECURSIVE TrimRight(_, _)
TrimRight(s, cutset) ==
  IF s # <<>> /\ s[Len(s)] \in cutset
  THEN TrimRight(SubSeq(s, 1, Len(s) - 1), cutset)
  ELSE s

\* the base URL is stored as it was passed
NewClientKeepsSlash(baseURL, apiKey) ==
  [baseURL |-> baseURL, apiKey |-> apiKey,
   httpClient |-> [id |-> "NewClient", Timeout |-> DefaultTimeout]]

\* NewClient(baseURL, apiKey)
NewClient(baseURL, apiKey) ==
  [baseURL |-> TrimRight(baseURL, {"/"}), apiKey |-> apiKey,
   httpClient |-> [id |-> "NewClient", Timeout |-> DefaultTimeout]]

\* streamClient := &http.Client{}
streamClient == [id |-> "streamClient", Timeout |-> NoTimeout]

\* the base URL of the tests' server, cut into its slashes and segments
ServerURL == <<"http:", "/", "/", "127.0.0.1">>
NoError == [kind |-> "nil"]
NoResult == [kind |-> "nil"]

\* no synchronous call is made
IdleCall == [pc |-> "idle", decodable |-> TRUE, result |-> NoResult, err |-> NoError,
             bodyRead |-> FALSE, bodyClosed |-> FALSE]

\* no identity headers are resolved
NoHdr == [done |-> FALSE]

\* ---------------------------------------------------------------- channels
MakeChan == [buf |-> <<>>, closed |-> FALSE]

\* a channel that hands out the newest value first
ChanSendFront(ch, v) == [ch EXCEPT !.buf = <<v>> \o @]

ChanSend(ch, v) == [ch EXCEPT !.buf = Append(@, v)]

ChanRecv(ch) == [ch EXCEPT !.buf = Tail(@)]

ChanClose(ch) == [ch EXCEPT !.closed = TRUE]

\* errs <- e, then continue at next; a send on a closed channel panics
SendErr(e, next) ==
  /\ errs.closed \/ Len(errs.buf) < ErrsCap
  /\ IF errs.closed
     THEN /\ panicked' = TRUE
          /\ pc' = "crashed"
          /\ UNCHANGED <<errs, errsSent>>
     ELSE /\ errs' = ChanSend(errs, e)
          /\ errsSent' = Append(errsSent, e)
          /\ pc' = next
          /\ UNCHANGED panicked

\* ------------------------------------------------------------------- Init
Scenarios ==
  \* the request cannot be marshalled, the URL is invalid, the connection fails
  {[req |-> [Stream |-> st, marshalable |-> m], urlOK |-> u, connOK |-> FALSE,
    status |-> StatusOK, errBody |-> BodyEmpty, wire |-> <<>>, ending |-> "eof"] :
      st \in BOOLEAN, m \in BOOLEAN, u \in BOOLEAN}
  \cup
  \* a non-success response
  {[req |-> [Stream |-> st, marshalable |-> TRUE], urlOK |-> TRUE, connOK |-> TRUE,
    status |-> sc, errBody |-> b, wire |-> <<>>, ending |-> "eof"] :
      st \in BOOLEAN, sc \in Statuses \ {StatusOK}, b \in ErrBodies}
  \cup
  \* a success response
  {[req |-> [Stream |-> FALSE, marshalable |-> TRUE], urlOK |-> TRUE, connOK |-> TRUE,
    status |-> StatusOK, errBody |-> BodyEmpty, wire |-> w, ending |-> e] :
      w \in Wires, e \in Endings}

Init ==
  /\ \E sc \in Scenarios :
       /\ req = sc.req
       /\ urlOK = sc.urlOK
       /\ connOK = sc.connOK
       /\ status = sc.status
       /\ errBody = sc.errBody
       /\ wire = sc.wire
       /\ ending = sc.ending
  /\ ctxDone = FALSE
  /\ readAtCancel = -1
  /\ pc = "marshal"
  /\ exit = "none"
  /\ pos = 0
  /\ chunk = NoChunk
  /\ chunks = MakeChan
  /\ errs = MakeChan
  /\ bodyClosed = FALSE
  /\ panicked = FALSE
  /\ sent = <<>>
  /\ errsSent = <<>>
  /\ received = <<>>
  /\ errsReceived = <<>>
  /\ rawURL = ServerURL
  /\ loop = "select"
  /\ c = NewClient(rawURL, "test-key")
  /\ method = "ChatCompletionStream"
  /\ httpReq = NoRequest
  /\ messages = CallMessages
  /\ reqBody = OtherBody
  /\ exchanges = <<>>
  /\ call = IdleCall
  /\ hdr = NoHdr
  /\ given = req.Stream

\* ------------------------------------------------- the streaming goroutine
\* req.Stream = true; body, err := json.Marshal(req)
Marshal ==
  /\ pc = "marshal"
  /\ req' = [req EXCEPT !.Stream = TRUE]
  /\ IF req.marshalable
     THEN /\ pc' = "newRequest"
          /\ reqBody' = MarshalChatRequest(req', messages)
          /\ UNCHANGED <<exit, errs, errsSent, panicked>>
     ELSE /\ exit' = "marshal"
          /\ SendErr(Errorf("marshal request"), "closeErrs")
          /\ UNCHANGED reqBody
  /\ UNCHANGED <<urlOK, connOK, status, errBody, wire, ending, syncVars, httpReq,
                 exchanges, ctxDone, readAtCancel, pos,
                 chunk, chunks, bodyClosed, sent, received, errsReceived>>

\* http.NewRequestWithContext(...); c.setHeaders(httpReq)
NewRequest ==
  /\ pc = "newRequest"
  /\ IF urlOK
     THEN /\ pc' = "do"
          /\ httpReq' = NewRequestWithContext(method, c.baseURL \o Path(method), reqBody,
                                              setHeaders(c.apiKey))
          /\ UNCHANGED <<exit, errs, errsSent, panicked>>
     ELSE /\ exit' = "create"
          /\ SendErr(Errorf("create request"), "closeErrs")
          /\ UNCHANGED httpReq
  /\ UNCHANGED <<inputs, syncVars, reqBody, exchanges, ctxDone, readAtCancel, pos, chunk,
                 chunks, bodyClosed, sent, received, errsReceived>>

\* the stream is sent with the client's own HTTP client
DoWithClientTransport ==
  /\ pc = "do"
  /\ exchanges' = Append(exchanges, [client |-> c.httpClient, req |-> httpReq])
  /\ IF connOK /\ ~ctxDone
     THEN /\ pc' = "status"
          /\ UNCHANGED <<exit, errs, errsSent, panicked>>
     ELSE /\ exit' = "send"
          /\ SendErr(Errorf("send request"), "closeErrs")
  /\ UNCHANGED <<inputs, syncVars, httpReq, reqBody, ctxDone, readAtCancel, pos, chunk,
                 chunks, bodyClosed, sent, received, errsReceived>>

\* resp, err := streamClient.Do(httpReq); defer resp.Body.Close()
Do ==
  /\ pc = "do"
  /\ exchanges' = Append(exchanges, [client |-> streamClient, req |-> httpReq])
  /\ IF connOK /\ ~ctxDone
     THEN /\ pc' = "status"
          /\ UNCHANGED <<exit, errs, errsSent, panicked>>
     ELSE /\ exit' = "send"
          /\ SendErr(Errorf("send request"), "closeErrs")
  /\ UNCHANGED <<inputs, syncVars, httpReq, reqBody, ctxDone, readAtCancel, pos, chunk, chunks, bodyClosed, sent,
                 received, errsReceived>>

\* the status of the response is not looked at
CheckStatusUnchecked ==
  /\ pc = "status"
  /\ pc' = "scan"
  /\ UNCHANGED <<inputs, syncVars, httpReq, reqBody, exchanges, ctxDone, readAtCancel,
                 exit, pos, chunk, chunks, errs, bodyClosed, panicked, sent, errsSent,
                 received, errsReceived>>

\* the error is sent but the return is missing: the body is scanned
CheckStatusFallsThrough ==
  /\ pc = "status"
  /\ IF StatusIsOK(status)
     THEN /\ pc' = "scan"
          /\ UNCHANGED <<exit, errs, errsSent, panicked>>
     ELSE /\ exit' = "status"
          /\ SendErr(parseError(status, errBody), "scan")
  /\ UNCHANGED <<inputs, syncVars, httpReq, reqBody, exchanges, ctxDone, readAtCancel, pos, chunk, chunks,
                 bodyClosed, sent, received, errsReceived>>

\* if resp.StatusCode != http.StatusOK { errs <- c.parseError(resp); return }
CheckStatus ==
  /\ pc = "status"
  /\ IF StatusIsOK(status)
     THEN /\ pc' = "scan"
          /\ UNCHANGED <<exit, errs, errsSent, panicked>>
     ELSE /\ exit' = "status"
          /\ SendErr(parseError(status, errBody), "closeBody")
  /\ UNCHANGED <<inputs, syncVars, httpReq, reqBody, exchanges, ctxDone, readAtCancel, pos, chunk, chunks, bodyClosed, sent,
                 received, errsReceived>>

\* the prefix is matched without its space, which is trimmed when it is there
LineOutcomeLoosePrefix(line) ==
  IF line = <<>> THEN [to |-> "scan", chunk |-> NoChunk]
  ELSE IF ~HasPrefix(line, <<"d", "a", "t", "a", ":">>) THEN [to |-> "scan", chunk |-> NoChunk]
  ELSE LET data == TrimPrefix(TrimPrefix(line, <<"d", "a", "t", "a", ":">>), <<" ">>)
       IN  IF IsDone(data) THEN [to |-> "return", chunk |-> NoChunk]
           ELSE LET u == Unmarshal(data)
                IN  IF u.err THEN [to |-> "scan", chunk |-> NoChunk]
                    ELSE [to |-> "offer", chunk |-> u.chunk]

\* a blank line ends the loop (break for continue)
LineOutcomeBlankEnds(line) ==
  IF line = <<>> THEN [to |-> "return", chunk |-> NoChunk]
  ELSE IF ~HasPrefix(line, DataPrefix) THEN [to |-> "scan", chunk |-> NoChunk]
  ELSE LET data == TrimPrefix(line, DataPrefix)
       IN  IF IsDone(data) THEN [to |-> "return", chunk |-> NoChunk]
           ELSE LET u == Unmarshal(data)
                IN  IF u.err THEN [to |-> "scan", chunk |-> NoChunk]
                    ELSE [to |-> "offer", chunk |-> u.chunk]

\* a payload that fails to parse ends the loop (return for continue)
LineOutcomeParseAborts(line) ==
  IF line = <<>> THEN [to |-> "scan", chunk |-> NoChunk]
  ELSE IF ~HasPrefix(line, DataPrefix) THEN [to |-> "scan", chunk |-> NoChunk]
  ELSE LET data == TrimPrefix(line, DataPrefix)
       IN  IF IsDone(data) THEN [to |-> "return", chunk |-> NoChunk]
           ELSE LET u == Unmarshal(data)
                IN  IF u.err THEN [to |-> "return", chunk |-> NoChunk]
                    ELSE [to |-> "offer", chunk |-> u.chunk]

\* the sentinel is taken for a line that does not parse, and skipped
LineOutcomeSentinelSkipped(line) ==
  IF line = <<>> THEN [to |-> "scan", chunk |-> NoChunk]
  ELSE IF ~HasPrefix(line, DataPrefix) THEN [to |-> "scan", chunk |-> NoChunk]
  ELSE LET data == TrimPrefix(line, DataPrefix)
       IN  LET u == Unmarshal(data)
           IN  IF u.err THEN [to |-> "scan", chunk |-> NoChunk]
               ELSE [to |-> "offer", chunk |-> u.chunk]

\* what one iteration of the loop does with the line the scanner returned
LineOutcome(line) ==
  IF line = <<>> THEN [to |-> "scan", chunk |-> NoChunk]
  ELSE IF ~HasPrefix(line, DataPrefix) THEN [to |-> "scan", chunk |-> NoChunk]
  ELSE LET data == TrimPrefix(line, DataPrefix)
       IN  IF IsDone(data) THEN [to |-> "return", chunk |-> NoChunk]
           ELSE LET u == Unmarshal(data)
                IN  IF u.err THEN [to |-> "scan", chunk |-> NoChunk]
                    ELSE [to |-> "offer", chunk |-> u.chunk]

\* the next line reaches the client and scanner.Scan() returns true: one
\* iteration, up to the select
ScanLine ==
  /\ pc = "scan"
  /\ pos < Len(wire)
  /\ pos' = pos + 1
  /\ LET o == LineOutcome(wire[pos + 1])
     IN  /\ chunk' = o.chunk
         /\ IF o.to = "return"
            THEN exit' = "sentinel" /\ pc' = "closeBody"
            ELSE exit' = exit /\ pc' = o.to
  /\ UNCHANGED <<inputs, syncVars, httpReq, reqBody, exchanges, ctxDone, readAtCancel, chunks, errs, bodyClosed, panicked, sent,
                 errsSent, received, errsReceived>>

\* a body that ends before a sentinel is reported as a failed read
ScanEOFReported ==
  /\ pc = "scan"
  /\ pos = Len(wire)
  /\ ending = "eof"
  /\ exit' = "readerr"
  /\ SendErr(Errorf("read stream"), "closeBody")
  /\ UNCHANGED <<inputs, syncVars, httpReq, reqBody, exchanges, ctxDone, readAtCancel, pos, chunk, chunks, bodyClosed, sent,
                 received, errsReceived>>

\* the body ends and scanner.Scan() returns false: scanner.Err() is nil
ScanEOF ==
  /\ pc = "scan"
  /\ pos = Len(wire)
  /\ ending = "eof"
  /\ exit' = "eof"
  /\ pc' = "closeBody"
  /\ UNCHANGED <<inputs, syncVars, httpReq, reqBody, exchanges, ctxDone, readAtCancel, pos, chunk, chunks, errs, bodyClosed,
                 panicked, sent, errsSent, received, errsReceived>>

\* the read error is sent and the goroutine goes on reading
ReadFailedNoReturn ==
  /\ pc = "scan"
  /\ exit' = exit
  /\ SendErr(Errorf("read stream"), "scan")
  /\ UNCHANGED <<inputs, syncVars, httpReq, reqBody, exchanges, ctxDone, readAtCancel, pos, chunk, chunks, bodyClosed, sent,
                 received, errsReceived>>

\* scanner.Err() is not looked at
ReadFailedSilent ==
  /\ pc = "scan"
  /\ exit' = "readerr"
  /\ pc' = "closeBody"
  /\ UNCHANGED <<inputs, syncVars, httpReq, reqBody, exchanges, ctxDone, readAtCancel, pos, chunk, chunks, errs,
                 bodyClosed, panicked, sent, errsSent, received, errsReceived>>

\* scanner.Scan() returns false on a failed read: errs <- "read stream: ..."
ReadFailed ==
  /\ pc = "scan"
  /\ exit' = "readerr"
  /\ SendErr(Errorf("read stream"), "closeBody")
  /\ UNCHANGED <<inputs, syncVars, httpReq, reqBody, exchanges, ctxDone, readAtCancel, pos, chunk, chunks, bodyClosed, sent,
                 received, errsReceived>>

\* the connection fails after the last line
ScanFail ==
  /\ pos = Len(wire)
  /\ ending = "err"
  /\ ReadFailed

\* the read is interrupted because the request's context is cancelled
ScanCancelled ==
  /\ ctxDone
  /\ ReadFailed

\* a select with a default case: a chunk that finds chunks full is dropped
OfferSendOrDrop ==
  /\ pc = "offer"
  /\ IF chunks.closed
     THEN /\ panicked' = TRUE
          /\ pc' = "crashed"
          /\ UNCHANGED <<chunks, sent>>
     ELSE IF Len(chunks.buf) < ChunksCap
     THEN /\ chunks' = ChanSend(chunks, chunk)
          /\ sent' = Append(sent, chunk)
          /\ pc' = "scan"
          /\ UNCHANGED panicked
     ELSE /\ pc' = "scan"
          /\ UNCHANGED <<chunks, sent, panicked>>
  /\ chunk' = NoChunk
  /\ UNCHANGED <<inputs, syncVars, httpReq, reqBody, exchanges, ctxDone, readAtCancel, exit,
                 pos, errs, bodyClosed, errsSent, received, errsReceived>>

\* a send that never waits for room in chunks
OfferSendUnbounded ==
  /\ pc = "offer"
  /\ IF chunks.closed
     THEN /\ panicked' = TRUE
          /\ pc' = "crashed"
          /\ UNCHANGED <<chunks, sent>>
     ELSE /\ chunks' = ChanSend(chunks, chunk)
          /\ sent' = Append(sent, chunk)
          /\ pc' = "scan"
          /\ UNCHANGED panicked
  /\ chunk' = NoChunk
  /\ UNCHANGED <<inputs, syncVars, httpReq, reqBody, exchanges, ctxDone, readAtCancel, exit,
                 pos, errs, bodyClosed, errsSent, received, errsReceived>>

\* select { case chunks <- chunk: ... }
OfferSend ==
  /\ pc = "offer"
  /\ chunks.closed \/ Len(chunks.buf) < ChunksCap
  /\ IF chunks.closed
     THEN /\ panicked' = TRUE
          /\ pc' = "crashed"
          /\ UNCHANGED <<chunks, sent>>
     ELSE /\ chunks' = ChanSend(chunks, chunk)
          /\ sent' = Append(sent, chunk)
          /\ pc' = "scan"
          /\ UNCHANGED panicked
  /\ chunk' = NoChunk
  /\ UNCHANGED <<inputs, syncVars, httpReq, reqBody, exchanges, ctxDone, readAtCancel, exit, pos, errs, bodyClosed, errsSent,
                 received, errsReceived>>

\* the cancellation branch closes chunks itself before returning
OfferCancelledClosing ==
  /\ pc = "offer"
  /\ ctxDone
  /\ exit' = "cancel"
  /\ pc' = "closeBody"
  /\ chunk' = NoChunk
  /\ chunks' = ChanClose(chunks)
  /\ UNCHANGED <<inputs, syncVars, httpReq, reqBody, exchanges, ctxDone, readAtCancel, pos, errs, bodyClosed,
                 panicked, sent, errsSent, received, errsReceived>>

\* a plain send in place of the select: ctx.Done() is never looked at
OfferCancelledNever ==
  /\ FALSE
  /\ UNCHANGED vars

\* break for return: leaves the select only, the loop goes on
OfferCancelledBreak ==
  /\ pc = "offer"
  /\ ctxDone
  /\ exit' = "cancel"
  /\ pc' = "scan"
  /\ chunk' = NoChunk
  /\ UNCHANGED <<inputs, syncVars, httpReq, reqBody, exchanges, ctxDone, readAtCancel, pos, chunks, errs, bodyClosed,
                 panicked, sent, errsSent, received, errsReceived>>

\* the cancellation branch reports ctx.Err() on errs before returning
OfferCancelledReports ==
  /\ pc = "offer"
  /\ ctxDone
  /\ exit' = "cancel"
  /\ SendErr(Errorf("context canceled"), "closeBody")
  /\ chunk' = NoChunk
  /\ UNCHANGED <<inputs, syncVars, httpReq, reqBody, exchanges, ctxDone, readAtCancel, pos, chunks, bodyClosed,
                 sent, received, errsReceived>>

\* select { ... case <-ctx.Done(): return }
OfferCancelled ==
  /\ pc = "offer"
  /\ ctxDone
  /\ exit' = "cancel"
  /\ pc' = "closeBody"
  /\ chunk' = NoChunk
  /\ UNCHANGED <<inputs, syncVars, httpReq, reqBody, exchanges, ctxDone, readAtCancel, pos, chunks, errs, bodyClosed, panicked,
                 sent, errsSent, received, errsReceived>>

\* the deferred resp.Body.Close() is missing
CloseBodyForgotten ==
  /\ pc = "closeBody"
  /\ pc' = "closeErrs"
  /\ UNCHANGED <<inputs, syncVars, httpReq, reqBody, exchanges, ctxDone, readAtCancel, exit, pos,
                 chunk, chunks, errs, bodyClosed, panicked, sent, errsSent, received,
                 errsReceived>>

\* deferred, last registered first: resp.Body.Close()
CloseBody ==
  /\ pc = "closeBody"
  /\ bodyClosed' = TRUE
  /\ pc' = "closeErrs"
  /\ UNCHANGED <<inputs, syncVars, httpReq, reqBody, exchanges, ctxDone, readAtCancel, exit, pos, chunk, chunks, errs, panicked,
                 sent, errsSent, received, errsReceived>>

\* close(chunks) is deferred after close(errs), so that it runs before it
CloseChunksBeforeErrs ==
  /\ pc = "closeErrs"
  /\ IF chunks.closed
     THEN panicked' = TRUE /\ pc' = "crashed" /\ UNCHANGED chunks
     ELSE chunks' = ChanClose(chunks) /\ pc' = "closeChunks" /\ UNCHANGED panicked
  /\ UNCHANGED <<inputs, syncVars, httpReq, reqBody, exchanges, ctxDone, readAtCancel, exit, pos, chunk, errs, bodyClosed, sent,
                 errsSent, received, errsReceived>>

\* deferred: close(errs)
CloseErrs ==
  /\ pc = "closeErrs"
  /\ IF errs.closed
     THEN panicked' = TRUE /\ pc' = "crashed" /\ UNCHANGED errs
     ELSE errs' = ChanClose(errs) /\ pc' = "closeChunks" /\ UNCHANGED panicked
  /\ UNCHANGED <<inputs, syncVars, httpReq, reqBody, exchanges, ctxDone, readAtCancel, exit, pos, chunk, chunks, bodyClosed, sent,
                 errsSent, received, errsReceived>>

\* the deferred close(chunks) is missing
CloseChunksForgotten ==
  /\ pc = "closeChunks"
  /\ pc' = "done"
  /\ UNCHANGED <<inputs, syncVars, httpReq, reqBody, exchanges, ctxDone, readAtCancel,
                 exit, pos, chunk, chunks, errs, bodyClosed, panicked, sent, errsSent,
                 received, errsReceived>>

\* deferred: close(chunks)
CloseChunks ==
  /\ pc = "closeChunks"
  /\ IF chunks.closed
     THEN panicked' = TRUE /\ pc' = "crashed" /\ UNCHANGED chunks
     ELSE chunks' = ChanClose(chunks) /\ pc' = "done" /\ UNCHANGED panicked
  /\ UNCHANGED <<inputs, syncVars, httpReq, reqBody, exchanges, ctxDone, readAtCancel, exit, pos, chunk, errs, bodyClosed, sent,
                 errsSent, received, errsReceived>>

\* ------------------------------------------------------------ environment
\* the caller cancels the context
Cancel ==
  /\ ~ctxDone
  /\ ctxDone' = TRUE
  /\ readAtCancel' = pos
  /\ UNCHANGED <<inputs, syncVars, httpReq, reqBody, exchanges, pc, exit, pos, chunk, chunks, errs, bodyClosed,
                 panicked, sent, errsSent, received, errsReceived>>

\* the consumer receives from chunks
RecvChunk ==
  /\ chunks.buf # <<>>
  /\ received' = Append(received, Head(chunks.buf))
  /\ chunks' = ChanRecv(chunks)
  /\ UNCHANGED <<inputs, syncVars, httpReq, reqBody, exchanges, ctxDone, readAtCancel, pc, exit, pos, chunk, errs, bodyClosed,
                 panicked, sent, errsSent, errsReceived>>

\* the consumer receives from errs
RecvErr ==
  /\ errs.buf # <<>>
  /\ errsReceived' = Append(errsReceived, Head(errs.buf))
  /\ errs' = ChanRecv(errs)
  /\ UNCHANGED <<inputs, syncVars, httpReq, reqBody, exchanges, ctxDone, readAtCancel, pc, exit, pos, chunk, chunks, bodyClosed,
                 panicked, sent, errsSent, received>>

Task ==
  \/ Marshal
  \/ NewRequest
  \/ Do
  \/ CheckStatus
  \/ ScanLine
  \/ ScanEOF
  \/ ScanFail
  \/ ScanCancelled
  \/ OfferSend
  \/ OfferCancelled
  \/ CloseBody
  \/ CloseErrs
  \/ CloseChunks

Next ==
  \/ Task
  \/ Cancel
  \/ RecvChunk
  \/ RecvErr

Spec == Init /\ [][Next]_vars

\* -------------------------------------------------- the synchronous calls
\* what a synchronous call never writes
streamState == <<pc, exit, pos, chunk, chunks, errs, bodyClosed, panicked, sent,
                 errsSent, received, errsReceived>>

\* return result, err (with the deferred resp.Body.Close() once there is a response)
Return(result, err, read, closed) ==
  [call EXCEPT !.pc = "returned", !.result = result, !.err = err,
               !.bodyRead = read, !.bodyClosed = closed]

\* the body of the request of method m: json.Marshal(req) where req is a ChatRequest
RequestBody(m, r, msgs) ==
  IF m = "ChatCompletion" THEN MarshalChatRequest(r, msgs) ELSE OtherBody

\* the request is marshalled with the Stream field as the caller supplied it
SyncMarshalKeepsStream ==
  /\ call.pc = "marshal"
  /\ call' = IF req.marshalable
             THEN [call EXCEPT !.pc = "newRequest"]
             ELSE Return(NoResult, Errorf("marshal request"), FALSE, FALSE)
  /\ reqBody' = IF req.marshalable THEN RequestBody(method, req, messages) ELSE reqBody
  /\ UNCHANGED <<inputs, ctxDone, readAtCancel, streamState, c, method, given, rawURL, loop, messages,
                 httpReq, exchanges, hdr>>

\* req.Stream = false (ChatCompletion); body, err := json.Marshal(req)
SyncMarshal ==
  /\ call.pc = "marshal"
  /\ req' = IF method = "ChatCompletion" THEN [req EXCEPT !.Stream = FALSE] ELSE req
  /\ call' = IF req.marshalable
             THEN [call EXCEPT !.pc = "newRequest"]
             ELSE Return(NoResult, Errorf("marshal request"), FALSE, FALSE)
  /\ reqBody' = IF req.marshalable THEN RequestBody(method, req', messages) ELSE reqBody
  /\ UNCHANGED <<urlOK, connOK, status, errBody, wire, ending, ctxDone, readAtCancel,
                 streamState, c, method, given, rawURL, loop, messages, httpReq, exchanges, hdr>>

\* the headers of the request of method m
RequestHeader(m, apiKey) == IF CallsSetHeaders(m) THEN setHeaders(apiKey) ELSE NoHeader

\* http.NewRequestWithContext(...); c.setHeaders(httpReq), where the method calls it
SyncNewRequest ==
  /\ call.pc = "newRequest"
  /\ IF urlOK
     THEN /\ httpReq' = NewRequestWithContext(method, c.baseURL \o Path(method), reqBody,
                                              RequestHeader(method, c.apiKey))
          /\ call' = [call EXCEPT !.pc = "do"]
     ELSE /\ call' = Return(NoResult, Errorf("create request"), FALSE, FALSE)
          /\ UNCHANGED httpReq
  /\ UNCHANGED <<inputs, ctxDone, readAtCancel, streamState, c, method, given, rawURL, loop, messages,
                 reqBody, exchanges, hdr>>

\* the request is sent without its context: a cancelled call goes on
SyncDoIgnoresContext ==
  /\ call.pc = "do"
  /\ exchanges' = Append(exchanges, [client |-> c.httpClient, req |-> httpReq])
  /\ call' = IF connOK
             THEN [call EXCEPT !.pc = "status"]
             ELSE Return(NoResult, Errorf("send request"), FALSE, FALSE)
  /\ UNCHANGED <<inputs, ctxDone, readAtCancel, streamState, c, method, given, rawURL, loop, messages, httpReq, reqBody, hdr>>

\* a failed exchange is tried a second time before the error is returned
SyncDoRetries ==
  /\ call.pc = "do"
  /\ exchanges' = Append(exchanges, [client |-> c.httpClient, req |-> httpReq])
  /\ call' = IF connOK /\ ~ctxDone
             THEN [call EXCEPT !.pc = "status"]
             ELSE IF Len(exchanges) = 0
                  THEN call
                  ELSE Return(NoResult, Errorf("send request"), FALSE, FALSE)
  /\ UNCHANGED <<inputs, ctxDone, readAtCancel, streamState, c, method, given, rawURL, loop, messages, httpReq, reqBody, hdr>>

\* resp, err := c.httpClient.Do(httpReq); defer resp.Body.Close()
SyncDo ==
  /\ call.pc = "do"
  /\ exchanges' = Append(exchanges, [client |-> c.httpClient, req |-> httpReq])
  /\ call' = IF connOK /\ ~ctxDone
             THEN [call EXCEPT !.pc = "status"]
             ELSE Return(NoResult, Errorf("send request"), FALSE, FALSE)
  /\ UNCHANGED <<inputs, ctxDone, readAtCancel, streamState, c, method, given, rawURL, loop, messages, httpReq, reqBody, hdr>>

\* every method takes only 200 for a success
SyncCheckStatusOnlyOK ==
  /\ call.pc = "status"
  /\ call' = IF status = StatusOK
             THEN [call EXCEPT !.pc = "decode"]
             ELSE Return(NoResult, parseError(status, errBody), TRUE, TRUE)
  /\ UNCHANGED <<inputs, ctxDone, readAtCancel, streamState, c, method, given, rawURL, loop, messages,
                 httpReq, reqBody, exchanges, hdr>>

\* if resp.StatusCode != ... { return nil, c.parseError(resp) }
SyncCheckStatus ==
  /\ call.pc = "status"
  /\ call' = IF status \in AcceptedStatuses(method)
             THEN [call EXCEPT !.pc = "decode"]
             ELSE Return(NoResult, parseError(status, errBody), TRUE, TRUE)
  /\ UNCHANGED <<inputs, ctxDone, readAtCancel, streamState, c, method, given, rawURL, loop, messages, httpReq, reqBody,
                 exchanges, hdr>>

\* a failed decode returns the partly filled value along with the error
SyncDecodeFailsWithValue ==
  /\ call.pc = "decode"
  /\ ~call.decodable \/ ctxDone
  /\ call' = Return([kind |-> "response", StatusCode |-> status],
                    Errorf("decode response"), TRUE, TRUE)
  /\ UNCHANGED <<inputs, ctxDone, readAtCancel, streamState, c, method, given, rawURL, loop, messages, httpReq, reqBody,
                 exchanges, hdr>>

\* json.NewDecoder(resp.Body).Decode(&v) succeeds: return &v, nil
SyncDecodeOK ==
  /\ call.pc = "decode"
  /\ call.decodable
  /\ call' = Return([kind |-> "response", StatusCode |-> status], NoError, TRUE, TRUE)
  /\ UNCHANGED <<inputs, ctxDone, readAtCancel, streamState, c, method, given, rawURL, loop, messages, httpReq, reqBody,
                 exchanges, hdr>>

\* Decode fails, on the body's content or on a read that the cancelled context
\* interrupts: return nil, "decode response: ..."
SyncDecodeFails ==
  /\ call.pc = "decode"
  /\ ~call.decodable \/ ctxDone
  /\ call' = Return(NoResult, Errorf("decode response"), TRUE, TRUE)
  /\ UNCHANGED <<inputs, ctxDone, readAtCancel, streamState, c, method, given, rawURL, loop, messages, httpReq, reqBody,
                 exchanges, hdr>>

SyncCall ==
  \/ SyncMarshal
  \/ SyncNewRequest
  \/ SyncDo
  \/ SyncCheckStatus
  \/ SyncDecodeOK
  \/ SyncDecodeFails

CallStatuses == {200, 202, 401, 500, 503}
ApiKeys == {"", "test-key"}

\* the streams of the calls that are enumerated with every client and method
CallWires == {<<>>, <<FrameLine(Hello), DoneLine>>, <<FrameLine(Hello), FrameLine(Empty)>>}

\* the inputs of one call of method m
CallScenarios(m) ==
  LET marshalables == IF HasBody(m) THEN BOOLEAN ELSE {TRUE}
      streams == IF m \in {"ChatCompletion", StreamMethod} THEN BOOLEAN ELSE {FALSE}
      accepted == IF m = StreamMethod THEN {StatusOK} ELSE AcceptedStatuses(m)
      base == [req |-> [Stream |-> FALSE, marshalable |-> TRUE], urlOK |-> TRUE,
               connOK |-> TRUE, status |-> StatusOK, errBody |-> BodyEmpty,
               wire |-> <<>>, ending |-> "eof", decodable |-> TRUE]
  IN  {[base EXCEPT !.req = [Stream |-> st, marshalable |-> ma], !.urlOK = u,
                    !.connOK = FALSE] :
         st \in streams, ma \in marshalables, u \in BOOLEAN}
      \cup
      {[base EXCEPT !.req.Stream = st, !.status = sc, !.errBody = b] :
         st \in streams, sc \in CallStatuses \ accepted, b \in ErrBodies}
      \cup
      {[base EXCEPT !.req.Stream = st, !.status = sc, !.decodable = d, !.wire = w,
                    !.ending = e] :
         st \in streams, sc \in accepted,
         d \in IF m = StreamMethod THEN {TRUE} ELSE BOOLEAN,
         w \in IF m = StreamMethod THEN CallWires ELSE {<<>>},
         e \in IF m = StreamMethod THEN Endings ELSE {"eof"}}

\* one call of any method, on a client with or without an API key
CallInit ==
  /\ method \in SyncMethods \cup {StreamMethod}
  /\ rawURL = ServerURL
  /\ loop = "select"
  /\ c \in {NewClient(rawURL, k) : k \in ApiKeys}
  /\ \E sc \in CallScenarios(method) :
       /\ req = sc.req
       /\ urlOK = sc.urlOK
       /\ connOK = sc.connOK
       /\ status = sc.status
       /\ errBody = sc.errBody
       /\ wire = sc.wire
       /\ ending = sc.ending
       /\ call = IF method = StreamMethod THEN IdleCall
                 ELSE [IdleCall EXCEPT !.pc = IF HasBody(method) THEN "marshal"
                                              ELSE "newRequest",
                                       !.decodable = sc.decodable]
  /\ pc = IF method = StreamMethod THEN "marshal" ELSE "idle"
  /\ ctxDone = FALSE
  /\ readAtCancel = -1
  /\ exit = "none"
  /\ pos = 0
  /\ chunk = NoChunk
  /\ chunks = MakeChan
  /\ errs = MakeChan
  /\ bodyClosed = FALSE
  /\ panicked = FALSE
  /\ sent = <<>>
  /\ errsSent = <<>>
  /\ received = <<>>
  /\ errsReceived = <<>>
  /\ httpReq = NoRequest
  /\ messages = CallMessages
  /\ reqBody = OtherBody
  /\ exchanges = <<>>
  /\ hdr = NoHdr
  /\ given = req.Stream

CallNext == Next \/ SyncCall

CallSpec == CallInit /\ [][CallNext]_vars

\* ------------------------------------------------- the caller's client
\* base URLs as the caller passes them to NewClient: a host, with and without
\* trailing slashes and a path prefix
BaseURLs ==
  {<<"host">>, <<"host", "/">>, <<"host", "/", "/">>, <<"host", "/", "api">>,
   <<"host", "/", "api", "/">>}

\* the clients a caller installs: custom := &http.Client{}, or one with a timeout
CustomClients == {[id |-> "custom", Timeout |-> t] : t \in {NoTimeout, 10}}

\* where a synchronous method starts
StartPc(m) == IF HasBody(m) THEN "marshal" ELSE "newRequest"

\* the caller is not inside a synchronous call: none has begun, or the call in
\* hand is ChatCompletionStream, which returned at once
CallerFree == method = StreamMethod \/ call.pc = StartPc(method)

\* c.WithHTTPClient(httpClient)
WithHTTPClient ==
  /\ CallerFree
  /\ \E httpClient \in CustomClients : c' = [c EXCEPT !.httpClient = httpClient]
  /\ UNCHANGED <<inputs, ctxDone, readAtCancel, streamState, method, given, rawURL, loop, messages,
                 httpReq, reqBody, exchanges, call, hdr>>

\* the caller writes req.Messages[0].Content through its own request value after
\* ChatCompletionStream returned
CallerEditsMessages ==
  /\ method = StreamMethod
  /\ messages = CallMessages
  /\ messages' = EditedMessages
  /\ UNCHANGED <<inputs, ctxDone, readAtCancel, streamState, c, method, given, rawURL, loop,
                 httpReq, reqBody, exchanges, call, hdr>>

\* the calls that reach the server, and the ones that find no connection
ClientScenarios(m) ==
  {sc \in CallScenarios(m) : sc.urlOK /\ sc.req.marshalable /\ sc.errBody = BodyEmpty}

\* one call of any method on a client made by NewClient
ClientInit ==
  /\ method \in SyncMethods \cup {StreamMethod}
  /\ rawURL \in BaseURLs
  /\ loop = "select"
  /\ c \in {NewClient(rawURL, k) : k \in ApiKeys}
  /\ \E sc \in ClientScenarios(method) :
       /\ req = sc.req
       /\ urlOK = sc.urlOK
       /\ connOK = sc.connOK
       /\ status = sc.status
       /\ errBody = sc.errBody
       /\ wire = sc.wire
       /\ ending = sc.ending
       /\ call = IF method = StreamMethod THEN IdleCall
                 ELSE [IdleCall EXCEPT !.pc = StartPc(method), !.decodable = sc.decodable]
  /\ pc = IF method = StreamMethod THEN "marshal" ELSE "idle"
  /\ given = req.Stream
  /\ messages = CallMessages
  /\ reqBody = OtherBody
  /\ ctxDone = FALSE
  /\ readAtCancel = -1
  /\ exit = "none"
  /\ pos = 0
  /\ chunk = NoChunk
  /\ chunks = MakeChan
  /\ errs = MakeChan
  /\ bodyClosed = FALSE
  /\ panicked = FALSE
  /\ sent = <<>>
  /\ errsSent = <<>>
  /\ received = <<>>
  /\ errsReceived = <<>>
  /\ httpReq = NoRequest
  /\ exchanges = <<>>
  /\ hdr = NoHdr

ClientNext == CallNext \/ WithHTTPClient \/ CallerEditsMessages

ClientSpec == ClientInit /\ [][ClientNext]_vars

\* ------------------------------------------------- the identity headers
\* the values of RequestOptions.UserID and of RequestOptions.ConversationID
UserIDs == {"", "U1", "user-42"}
ConversationIDs == {"", "C1", "conv-99"}

\* RequestOptions, and the client's defaults of the same three fields
Identities ==
  [UserID : UserIDs, ConversationID : ConversationIDs, CognitiveDisabled : BOOLEAN]

NoIdentity == [UserID |-> "", ConversationID |-> "", CognitiveDisabled |-> FALSE]

\* a text field: the per-call override, else the client's default
resolve(override, default) == IF override # "" THEN override ELSE default

\* the opt-out flag: the per-call override, else the client's default
resolveFlag(override, default) == IF override THEN override ELSE default

\* the options of the call stand for the whole configuration when one is set
identityHeadersMerged(defaults, opts) ==
  LET cfg == IF opts # NoIdentity THEN opts ELSE defaults
  IN  (IF cfg.UserID # "" THEN "X-User-ID" :> cfg.UserID ELSE NoHeader)
      @@ (IF cfg.ConversationID # ""
          THEN "X-Conversation-ID" :> cfg.ConversationID ELSE NoHeader)
      @@ (IF cfg.CognitiveDisabled THEN "X-Cognitive-Disabled" :> "true" ELSE NoHeader)

\* the three identity headers of a call, each set only when its value is not empty
identityHeaders(defaults, opts) ==
  LET user == resolve(opts.UserID, defaults.UserID)
      conv == resolve(opts.ConversationID, defaults.ConversationID)
      cog == resolveFlag(opts.CognitiveDisabled, defaults.CognitiveDisabled)
  IN  (IF user # "" THEN "X-User-ID" :> user ELSE NoHeader)
      @@ (IF conv # "" THEN "X-Conversation-ID" :> conv ELSE NoHeader)
      @@ (IF cog THEN "X-Cognitive-Disabled" :> "true" ELSE NoHeader)

\* what composing the headers never writes
composeFrame == <<inputs, ctxDone, readAtCancel, streamState, c, method, given, rawURL, loop, messages,
                  httpReq, reqBody, exchanges, call>>

\* client.SetUserID(id), before the client is used
SetUserID ==
  /\ hdr.pc = "configure"
  /\ \E id \in UserIDs : hdr' = [hdr EXCEPT !.defaults.UserID = id]
  /\ UNCHANGED composeFrame

\* client.SetConversationID(id), before the client is used
SetConversationID ==
  /\ hdr.pc = "configure"
  /\ \E id \in ConversationIDs : hdr' = [hdr EXCEPT !.defaults.ConversationID = id]
  /\ UNCHANGED composeFrame

\* client.SetCognitiveDisabled(disabled), before the client is used
SetCognitiveDisabled ==
  /\ hdr.pc = "configure"
  /\ \E disabled \in BOOLEAN : hdr' = [hdr EXCEPT !.defaults.CognitiveDisabled = disabled]
  /\ UNCHANGED composeFrame

\* the headers of one call made with the RequestOptions opts
ComposeHeaders ==
  /\ hdr.pc = "configure"
  /\ \E opts \in Identities :
       hdr' = [hdr EXCEPT !.pc = "composed", !.opts = opts,
                          !.header = setHeaders(c.apiKey)
                                     @@ identityHeaders(hdr.defaults, opts)]
  /\ UNCHANGED composeFrame

\* a new client, of which no call is running yet
HeaderInit ==
  /\ rawURL = ServerURL
  /\ loop = "select"
  /\ c \in {NewClient(rawURL, k) : k \in ApiKeys}
  /\ method = "ChatCompletion"
  /\ hdr = [pc |-> "configure", defaults |-> NoIdentity, opts |-> NoIdentity,
            header |-> NoHeader]
  /\ req = [Stream |-> FALSE, marshalable |-> TRUE]
  /\ given = FALSE
  /\ urlOK = TRUE
  /\ connOK = TRUE
  /\ status = StatusOK
  /\ errBody = BodyEmpty
  /\ wire = <<>>
  /\ ending = "eof"
  /\ call = IdleCall
  /\ pc = "idle"
  /\ ctxDone = FALSE
  /\ readAtCancel = -1
  /\ exit = "none"
  /\ pos = 0
  /\ chunk = NoChunk
  /\ chunks = MakeChan
  /\ errs = MakeChan
  /\ bodyClosed = FALSE
  /\ panicked = FALSE
  /\ sent = <<>>
  /\ errsSent = <<>>
  /\ received = <<>>
  /\ errsReceived = <<>>
  /\ httpReq = NoRequest
  /\ messages = CallMessages
  /\ reqBody = OtherBody
  /\ exchanges = <<>>

HeaderNext == SetUserID \/ SetConversationID \/ SetCognitiveDisabled \/ ComposeHeaders

HeaderSpec == HeaderInit /\ [][HeaderNext]_vars

\* ------------------------------------------- more frames than chunks holds
\* one frame more than the capacity of chunks, then the sentinel
LongWire == [i \in 1..(ChunksCap + 1) |-> FrameLine(Hello)] \o <<DoneLine>>

\* a success response with the long stream, or with an empty body
LongScenarios ==
  {[wire |-> LongWire, ending |-> "eof"], [wire |-> <<>>, ending |-> "eof"],
   [wire |-> <<>>, ending |-> "err"]}

LongInit ==
  /\ \E sc \in LongScenarios : wire = sc.wire /\ ending = sc.ending
  /\ req = [Stream |-> FALSE, marshalable |-> TRUE]
  /\ urlOK = TRUE
  /\ connOK = TRUE
  /\ status = StatusOK
  /\ errBody = BodyEmpty
  /\ ctxDone = FALSE
  /\ readAtCancel = -1
  /\ pc = "marshal"
  /\ exit = "none"
  /\ pos = 0
  /\ chunk = NoChunk
  /\ chunks = MakeChan
  /\ errs = MakeChan
  /\ bodyClosed = FALSE
  /\ panicked = FALSE
  /\ sent = <<>>
  /\ errsSent = <<>>
  /\ received = <<>>
  /\ errsReceived = <<>>
  /\ rawURL = ServerURL
  /\ loop = "select"
  /\ c = NewClient(rawURL, "test-key")
  /\ method = StreamMethod
  /\ httpReq = NoRequest
  /\ messages = CallMessages
  /\ reqBody = OtherBody
  /\ exchanges = <<>>
  /\ call = IdleCall
  /\ hdr = NoHdr
  /\ given = req.Stream

\* a consumer that has stopped receiving from chunks
StalledNext ==
  \/ Task
  \/ Cancel
  \/ RecvErr

StalledSpec == LongInit /\ [][StalledNext]_vars

\* a select whose only ready case is ctx.Done() takes it, and the transport
\* fails a pending read once the request's context is cancelled
CancelFairness ==
  /\ WF_vars(OfferCancelled)
  /\ WF_vars(ScanCancelled)
  /\ WF_vars(CloseBody \/ CloseErrs \/ CloseChunks)

StalledFairSpec == StalledSpec /\ CancelFairness

\* ------------------------------------------- the documented consumer loop
\* what the consumer's loop never writes
loopFrame == <<inputs, httpReq, reqBody, exchanges, ctxDone, readAtCancel, pc, exit, pos,
               chunk, bodyClosed, panicked, sent, errsSent, c, method, call, hdr, given,
               rawURL, messages>>

\* case chunk, ok := <-chunks: with ok true, the chunk is printed
SelectChunk ==
  /\ loop = "select"
  /\ chunks.buf # <<>>
  /\ received' = Append(received, Head(chunks.buf))
  /\ chunks' = ChanRecv(chunks)
  /\ UNCHANGED <<loopFrame, loop, errs, errsReceived>>

\* case chunk, ok := <-chunks: with ok false, return
SelectChunksClosed ==
  /\ loop = "select"
  /\ chunks.buf = <<>>
  /\ chunks.closed
  /\ loop' = "returned"
  /\ UNCHANGED <<loopFrame, chunks, errs, received, errsReceived>>

\* case err, ok := <-errs: with ok true, log.Fatal(err)
SelectErr ==
  /\ loop = "select"
  /\ errs.buf # <<>>
  /\ errsReceived' = Append(errsReceived, Head(errs.buf))
  /\ errs' = ChanRecv(errs)
  /\ loop' = "fatal"
  /\ UNCHANGED <<loopFrame, chunks, received>>

\* case err, ok := <-errs: with ok false, return
SelectErrsClosed ==
  /\ loop = "select"
  /\ errs.buf = <<>>
  /\ errs.closed
  /\ loop' = "returned"
  /\ UNCHANGED <<loopFrame, chunks, errs, received, errsReceived>>

\* one pass of the select: any case that is ready may be chosen
Select == SelectChunk \/ SelectChunksClosed \/ SelectErr \/ SelectErrsClosed

LoopNext == Task \/ Cancel \/ Select

\* the streaming call with the consumer of the README
LoopSpec == Init /\ [][LoopNext]_vars

\* ------------------------------------- a long stream and a slow consumer
\* the caller cancels before the first line is read, or once chunks is full
CancelEarlyOrFull ==
  /\ pos = 0 \/ Len(chunks.buf) = ChunksCap
  /\ Cancel

DrainNext == Task \/ CancelEarlyOrFull \/ RecvChunk \/ RecvErr

\* the long stream with a consumer that receives when it will
DrainSpec == LongInit /\ [][DrainNext]_vars

\* the goroutine is scheduled, and the lines and the end of the body arrive
DrainFairSpec == DrainSpec /\ WF_vars(Task)

\* the deferred calls never block: once the goroutine has returned they run
Deferred == CloseBody \/ CloseErrs \/ CloseChunks

FairSpec == Spec /\ WF_vars(Deferred)

\* ------------------------------------------------- reference definitions
Texts == {Hello, Empty, World}

IsFrameLine(l) == \E t \in Texts : l = FrameLine(t)

FrameOf(l) == [Content |-> CHOOSE t \in Texts : l = FrameLine(t)]

\* the frames on the wire before the first sentinel line, in wire order
RECURSIVE FramesBeforeDone(_)
FramesBeforeDone(w) ==
  IF w = <<>> THEN <<>>
  ELSE IF Head(w) = DoneLine THEN <<>>
  ELSE IF IsFrameLine(Head(w)) THEN <<FrameOf(Head(w))>> \o FramesBeforeDone(Tail(w))
  ELSE FramesBeforeDone(Tail(w))

\* the generated text: the deltas of the frame lines, concatenated
RECURSIVE FullText(_)
FullText(w) ==
  IF w = <<>> THEN <<>>
  ELSE IF Head(w) = DoneLine THEN <<>>
  ELSE IF IsFrameLine(Head(w))
       THEN (CHOOSE t \in Texts : Head(w) = FrameLine(t)) \o FullText(Tail(w))
  ELSE FullText(Tail(w))

RECURSIVE Concat(_)
Concat(cs) == IF cs = <<>> THEN <<>> ELSE Head(cs).Content \o Concat(Tail(cs))

IsPrefix(a, b) == Len(a) <= Len(b) /\ SubSeq(b, 1, Len(a)) = a

WellFormed(w) ==
  /\ Len(w) > 0
  /\ w[Len(w)] = DoneLine
  /\ \A i \in 1..(Len(w) - 1) : IsFrameLine(w[i]) \/ w[i] = BlankLine

Closing == {"closeBody", "closeErrs", "closeChunks", "done"}

\* a response was received: Do returned without an error
Responded ==
  /\ pc \notin {"marshal", "newRequest", "do"}
  /\ exit \notin {"marshal", "create", "send"}

BothClosed == chunks.closed /\ errs.closed

\* ----------------------------------------------------------------- claims
\* C1: once the goroutine has read a line whose payload is the sentinel
\* "[DONE]" from a success response, it only runs its deferred closes, no
\* error was ever sent on errs, and when it is done both channels are closed.
C1_SentinelEndsNormally ==
  (status = StatusOK /\ pos > 0 /\ wire[pos] = DoneLine) =>
    /\ pc \in Closing
    /\ errsSent = <<>>
    /\ errs.buf = <<>>
    /\ ~panicked
    /\ (pc = "done" => BothClosed)

C1_Witness ==
  /\ pc = "done"
  /\ status = StatusOK
  /\ pos > 0
  /\ wire[pos] = DoneLine
  /\ sent # <<>>
  /\ BothClosed

\* C2: for a response whose status is not 200, no chunk is ever sent, the
\* body is never scanned, exactly one error, the result of parseError, is
\* sent on errs, and the channels are closed only after it.
C2_NonSuccessOneError ==
  (Responded /\ status # StatusOK) =>
    /\ sent = <<>>
    /\ pos = 0
    /\ chunk = NoChunk
    /\ IF pc = "status"
       THEN errsSent = <<>>
       ELSE errsSent = <<parseError(status, errBody)>> /\ pc \in Closing
    /\ (pc = "done" => BothClosed)
    /\ ((errs.closed \/ chunks.closed) => Len(errsSent) = 1)

C2_Witness ==
  /\ pc = "done"
  /\ status # StatusOK
  /\ Len(errsSent) = 1
  /\ errsSent[1].kind = "APIError"
  /\ errsSent[1].StatusCode = status
  /\ BothClosed

\* C3: what the consumer has received, followed by what is pending in
\* chunks, is what was sent, and it is a prefix of the frames on the wire in
\* wire order: no reordering, no duplicate, no merged frames.
C3_WireOrder ==
  /\ received \o chunks.buf = sent
  /\ IsPrefix(sent, FramesBeforeDone(wire))

C3_Witness ==
  /\ Len(received) >= 2
  /\ received[1] # received[2]
  /\ ctxDone

\* C4: for a well-formed stream (success status, frames and separators, the
\* sentinel last), never cancelled and drained by the consumer, the frames
\* received are exactly the frames on the wire and their deltas concatenate to
\* the generated text ("Hello", "", " world" give "Hello world").
C4_Reconstruction ==
  (status = StatusOK /\ WellFormed(wire) /\ ~ctxDone /\ pc = "done"
     /\ chunks.buf = <<>>) =>
    /\ received = FramesBeforeDone(wire)
    /\ Concat(received) = FullText(wire)
    /\ (wire = HelloWorldWire => Concat(received) = <<"H", " ", "w">>)

C4_Witness ==
  /\ wire = HelloWorldWire
  /\ pc = "done"
  /\ ~ctxDone
  /\ chunks.buf = <<>>
  /\ Len(received) = 3
  /\ Concat(received) = <<"H", " ", "w">>

\* C5: no send on a closed channel and no second close ever happens; errs is
\* closed only when the goroutine has nothing left but closing chunks, chunks
\* only when it is done, and when it is done both are closed.
C5_CloseOnce ==
  /\ ~panicked
  /\ pc # "crashed"
  /\ (errs.closed => pc \in {"closeChunks", "done"})
  /\ (chunks.closed => pc = "done")
  /\ (pc = "done" => BothClosed)

C5_Witness ==
  /\ pc = "done"
  /\ exit = "cancel"
  /\ BothClosed
  /\ sent # <<>>

\* C6: the stream "frame, corrupt data line, frame, sentinel" delivers both
\* frames in order, sends no error and ends at the sentinel; and whenever the
\* scanner returns a data line whose payload does not parse, the loop goes
\* on to the next read with nothing sent on either channel.
C6_CorruptLineSkipped ==
  /\ []((wire = CorruptBetweenWire /\ pc = "done" /\ ~ctxDone) =>
          /\ sent = <<[Content |-> Hello], [Content |-> World]>>
          /\ received \o chunks.buf = sent
          /\ errsSent = <<>>
          /\ exit = "sentinel")
  /\ [][(pc = "scan" /\ pos' = pos + 1 /\ wire[pos'] = CorruptLine) =>
          /\ pc' = "scan"
          /\ chunk' = NoChunk
          /\ sent' = sent
          /\ errsSent' = errsSent
          /\ UNCHANGED <<chunks, errs, exit>>]_vars

C6_Witness ==
  /\ wire = CorruptBetweenWire
  /\ pc = "done"
  /\ ~ctxDone
  /\ exit = "sentinel"
  /\ received = <<[Content |-> Hello], [Content |-> World]>>
  /\ errsSent = <<>>

\* C7: once the select has taken the ctx.Done() branch, the goroutine only
\* runs its deferred closes: no chunk is sent and no line is read any more, so
\* the consumer gets at most the chunks that were already sent (received or
\* pending in chunks) at that moment, also when ctx was cancelled before the
\* first line was read.
C7_NothingAfterCancelObserved ==
  /\ [](exit = "cancel" => (pc \in Closing /\ chunk = NoChunk))
  /\ [][exit = "cancel" =>
          /\ sent' = sent
          /\ pos' = pos
          /\ received' \o chunks'.buf = received \o chunks.buf]_vars

C7_Witness ==
  /\ exit = "cancel"
  /\ pc = "done"
  /\ readAtCancel = 0
  /\ received # <<>>
  /\ Len(sent) < Len(FramesBeforeDone(wire))

\* C8: when the select takes the ctx.Done() branch, nothing was and nothing
\* is sent on errs: errs is closed empty.
C8_CancelSendsNoError ==
  exit = "cancel" =>
    /\ errsSent = <<>>
    /\ errs.buf = <<>>
    /\ errsReceived = <<>>
    /\ (pc = "done" => errs.closed)

C8_Witness ==
  /\ exit = "cancel"
  /\ pc = "done"
  /\ errs.closed
  /\ errs.buf = <<>>
  /\ errsSent = <<>>

\* C9: when the scanner stops on a failed read, exactly one error, wrapped
\* with "read stream", is sent on errs, then only the deferred closes run and
\* both channels end closed; the chunks sent before stay available to the
\* consumer and no chunk is sent afterwards.
C9_ReadFailureOneError ==
  /\ [](exit = "readerr" =>
          /\ errsSent = <<Errorf("read stream")>>
          /\ pc \in Closing
          /\ received \o chunks.buf = sent
          /\ (pc = "done" => BothClosed))
  /\ [][exit = "readerr" =>
          /\ sent' = sent
          /\ errsSent' = errsSent
          /\ received' \o chunks'.buf = received \o chunks.buf]_vars

C9_Witness ==
  /\ exit = "readerr"
  /\ pc = "done"
  /\ ~ctxDone
  /\ ending = "err"
  /\ received # <<>>
  /\ errsReceived = <<Errorf("read stream")>>
  /\ BothClosed

\* C10: once an error has been sent on errs, nothing more is sent on either
\* channel, the goroutine only runs its deferred closes, and (the goroutine
\* being scheduled) both channels are eventually closed.
C10_ErrorThenClosed ==
  /\ [](errsSent # <<>> => (Len(errsSent) = 1 /\ pc \in Closing))
  /\ [][errsSent # <<>> => (sent' = sent /\ errsSent' = errsSent)]_vars
  /\ (errsSent # <<>> ~> BothClosed)

C10_Witness ==
  /\ errsSent # <<>>
  /\ exit = "send"
  /\ pc = "done"
  /\ BothClosed

\* C11: chunks never holds more than 100 pending chunks; the goroutine gets
\* 100 chunks ahead of a consumer that has received nothing, and with 100
\* pending the offer of the next chunk sends nothing: the goroutine stays in
\* the select until there is room or the context is cancelled.
C11_ChunksBounded ==
  /\ [](Len(chunks.buf) <= ChunksCap)
  /\ [][(pc = "offer" /\ Len(chunks.buf) = ChunksCap) =>
          /\ sent' = sent
          /\ Len(chunks'.buf) <= ChunksCap
          /\ (pc' = "offer" \/ (ctxDone /\ exit' = "cancel"))]_vars

C11_Witness ==
  /\ pc = "offer"
  /\ Len(chunks.buf) = ChunksCap
  /\ Len(sent) = ChunksCap
  /\ received = <<>>
  /\ pos = ChunksCap + 1
  /\ ~ctxDone

\* C12: when the context is cancelled while the goroutine is in the select
\* (chunks full, the consumer not receiving) or in a body read (no line
\* coming), the goroutine eventually closes both channels, given that a
\* select with ctx.Done() ready is taken and that the transport fails the
\* pending read.
C12_CancelUnblocks ==
  (ctxDone /\ pc \in {"scan", "offer"}) ~> (pc = "done" /\ BothClosed)

C12_Witness ==
  /\ exit = "cancel"
  /\ pc = "done"
  /\ BothClosed
  /\ Len(chunks.buf) = ChunksCap
  /\ pos = ChunksCap + 1

\* the stream flag that the receiver of a body decodes: an omitted field is false
StreamFlag(body) == body.stream = "true"

\* the exchanges of the call, as a set of indices
Exchanged == 1..Len(exchanges)

\* C13: the stream flag of every body that goes out is fixed by the method called,
\* false for ChatCompletion and true for ChatCompletionStream, whatever the
\* caller put in the Stream field
C13_StreamFlagForced ==
  \A i \in Exchanged :
    /\ method = "ChatCompletion" => ~StreamFlag(exchanges[i].req.body)
    /\ method = StreamMethod => StreamFlag(exchanges[i].req.body)

\* ChatCompletion was called with Stream set and its request has gone out
C13_Witness ==
  /\ method = "ChatCompletion"
  /\ given
  /\ Len(exchanges) = 1
  /\ exchanges[1].req.body.stream = "omitted"

\* the header carries Content-Type: application/json
HasContentType(header) ==
  "Content-Type" \in DOMAIN header /\ header["Content-Type"] = "application/json"

\* the header carries Authorization: "Bearer " + key iff the key is not empty
AuthorizationIffKey(header, apiKey) ==
  /\ "Authorization" \in DOMAIN header <=> apiKey # ""
  /\ "Authorization" \in DOMAIN header => header["Authorization"] = <<"Bearer ", apiKey>>

\* C14 as stated: every request that goes out carries Content-Type:
\* application/json, and Authorization: "Bearer " + key iff the key is not empty
C14_EveryRequest ==
  \A i \in Exchanged :
    /\ HasContentType(exchanges[i].req.header)
    /\ AuthorizationIffKey(exchanges[i].req.header, c.apiKey)

\* C14: every request of a method other than Health and Ready carries
\* Content-Type: application/json, and Authorization: "Bearer " + key iff the key
\* is not empty; the requests of Health and Ready carry neither header
C14_HeadersExceptProbes ==
  \A i \in Exchanged :
    IF method \in {"Health", "Ready"}
    THEN DOMAIN exchanges[i].req.header = {}
    ELSE /\ HasContentType(exchanges[i].req.header)
         /\ AuthorizationIffKey(exchanges[i].req.header, c.apiKey)

\* ListModels went out from a client with a key, with both headers
C14_Witness ==
  /\ method = "ListModels"
  /\ c.apiKey = "test-key"
  /\ Len(exchanges) = 1
  /\ exchanges[1].req.header["Authorization"] = <<"Bearer ", "test-key">>
  /\ exchanges[1].req.header["Content-Type"] = "application/json"

\* the header name is set to value when value is given, and is absent otherwise
CarriesIffSet(header, name, value, isSet) ==
  IF isSet THEN name \in DOMAIN header /\ header[name] = value
  ELSE name \notin DOMAIN header

\* C15: each identity header of a call carries the per-call override when there is
\* one, else the client's default when there is one, and is absent when there is
\* neither, whatever the other two fields hold; with the default user U1 and the
\* override conversation C1 the call carries X-User-ID: U1 and X-Conversation-ID: C1
C15_IdentityHeaders ==
  hdr.pc = "composed" =>
    LET d == hdr.defaults
        o == hdr.opts
        h == hdr.header
    IN  /\ CarriesIffSet(h, "X-User-ID", IF o.UserID # "" THEN o.UserID ELSE d.UserID,
                         o.UserID # "" \/ d.UserID # "")
        /\ CarriesIffSet(h, "X-Conversation-ID",
                         IF o.ConversationID # "" THEN o.ConversationID
                         ELSE d.ConversationID,
                         o.ConversationID # "" \/ d.ConversationID # "")
        /\ CarriesIffSet(h, "X-Cognitive-Disabled", "true",
                         o.CognitiveDisabled \/ d.CognitiveDisabled)
        /\ (d.UserID = "U1" /\ o.UserID = "" /\ o.ConversationID = "C1") =>
             (h["X-User-ID"] = "U1" /\ h["X-Conversation-ID"] = "C1")

\* the default user U1 and the override conversation C1 went out together
C15_Witness ==
  /\ hdr.pc = "composed"
  /\ hdr.defaults = [NoIdentity EXCEPT !.UserID = "U1"]
  /\ hdr.opts = [NoIdentity EXCEPT !.ConversationID = "C1"]
  /\ hdr.header["X-User-ID"] = "U1"
  /\ hdr.header["X-Conversation-ID"] = "C1"
  /\ "X-Cognitive-Disabled" \notin DOMAIN hdr.header

\* a synchronous call has returned what parseError made of a non-success response
SyncRejected ==
  call.pc = "returned" /\ call.bodyRead /\ status \notin AcceptedStatuses(method)

\* the streaming call has returned on a non-success response
StreamRejected == exit = "status"

\* the errors that are not made by parseError
WrappedErrors ==
  {Errorf(tag) : tag \in {"marshal request", "create request", "send request",
                          "decode response", "stream read error"}}

\* the *APIError of a response with this status and this parsed envelope
APIErrorOf(statusCode, message, type) ==
  [kind |-> "APIError", StatusCode |-> statusCode, Message |-> message, Type |-> type]

\* C16: a non-success response whose body is the error envelope with the message
\* "bad key" gives an APIError with the status of the response and the message and
\* type of the envelope (an envelope without fields gives empty ones), and this
\* error is none of the wrapped transport errors
C16_EnvelopeClassified ==
  LET expected ==
        IF errBody = BodyEnvelope
        THEN APIErrorOf(status, "bad key", "invalid_request_error")
        ELSE APIErrorOf(status, "", "")
  IN  errBody \in {BodyEnvelope, BodyNoError} =>
        /\ SyncRejected => (call.err = expected /\ call.err \notin WrappedErrors)
        /\ StreamRejected => (errsSent = <<expected>> /\ expected \notin WrappedErrors)

\* ListModels answered 401 with the envelope returned the typed error
C16_Witness ==
  /\ method = "ListModels"
  /\ status = 401
  /\ errBody = BodyEnvelope
  /\ SyncRejected
  /\ call.err = APIErrorOf(401, "bad key", "invalid_request_error")

\* C17: a non-success response whose body is not JSON gives an APIError with the
\* status of the response, the raw body as message and the type "unknown_error",
\* and no other error is returned for the failed parse
C17_NonJSONClassified ==
  errBody \in {BodyText, BodyEmpty} =>
    /\ SyncRejected => call.err = APIErrorOf(status, errBody, "unknown_error")
    /\ StreamRejected => errsSent = <<APIErrorOf(status, errBody, "unknown_error")>>

\* ListModels answered 500 with plain text returned the raw text as message
C17_Witness ==
  /\ method = "ListModels"
  /\ status = 500
  /\ errBody = BodyText
  /\ SyncRejected
  /\ call.err = APIErrorOf(500, "internal server error", "unknown_error")

\* a synchronous call has returned
Returned == call.pc = "returned"

\* C18: a synchronous call that has returned has either a result and no error, or
\* no result and an error, which is a construction, transport, protocol or decode
\* error
C18_ExactlyOne ==
  Returned =>
    \/ call.result # NoResult /\ call.err = NoError
    \/ /\ call.result = NoResult
       /\ call.err # NoError
       /\ \/ call.err \in {Errorf("marshal request"), Errorf("create request"),
                           Errorf("send request"), Errorf("decode response")}
          \/ call.err.kind = "APIError"

\* an accepted response whose body does not decode: no result, a decode error
C18_Witness ==
  /\ Returned
  /\ status \in AcceptedStatuses(method)
  /\ ~call.decodable
  /\ call.result = NoResult
  /\ call.err = Errorf("decode response")

\* the library has stopped working on the call, with or without an error
Finished == Returned \/ pc \in {"closeBody", "closeErrs", "closeChunks", "done", "crashed"}

\* C19: a call makes at most one HTTP exchange, and once it has failed or finished
\* no further exchange is made
C19_OneExchange ==
  /\ [](Len(exchanges) <= 1)
  /\ [][(Finished \/ errsSent # <<>>) => exchanges' = exchanges]_vars

\* the one exchange of a call failed and the call is over
C19_Witness ==
  /\ Len(exchanges) = 1
  /\ Returned
  /\ call.err = Errorf("send request")

\* Do is about to fail: no connection, or the context is cancelled
ConnectionFails == ~connOK \/ ctxDone

\* C20: when the connection fails or the context is cancelled before the request is
\* sent, a synchronous call returns no result and the "send request" error without
\* having read a body, and a streaming call sends that one error, scans no line and
\* sends no chunk
C20_FailsFast ==
  /\ [][(call.pc = "do" /\ ConnectionFails /\ call' # call) =>
          call' = Return(NoResult, Errorf("send request"), FALSE, FALSE)]_vars
  /\ [][(pc = "do" /\ ConnectionFails /\ pc' # pc) =>
          (exit' = "send" /\ errsSent' = <<Errorf("send request")>>)]_vars
  /\ [](exit = "send" =>
          /\ errsSent = <<Errorf("send request")>>
          /\ pos = 0
          /\ sent = <<>>
          /\ ~bodyClosed)
  /\ []((Returned /\ call.err = Errorf("send request")) =>
          (call.result = NoResult /\ ~call.bodyRead))

\* ListModels called with a cancelled context on a reachable server
C20_Witness ==
  /\ method = "ListModels"
  /\ connOK
  /\ ctxDone
  /\ Returned
  /\ call.result = NoResult
  /\ call.err = Errorf("send request")
  /\ ~call.bodyRead
  /\ Len(exchanges) = 1

\* C21: when a response was received, a streaming call has closed its body by the
\* time both channels are closed, whichever way it ended, and a synchronous call
\* has closed it when it returns
C21_BodyReleased ==
  /\ []((method = StreamMethod /\ Responded /\ BothClosed) => bodyClosed)
  /\ [][(call.pc \in {"status", "decode"} /\ call'.pc = "returned") =>
          call'.bodyClosed]_vars

\* a stream that was cancelled while a chunk was on offer has released its body
C21_Witness ==
  /\ method = StreamMethod
  /\ exit = "cancel"
  /\ Responded
  /\ BothClosed
  /\ bodyClosed

\* C22: every request the goroutine of a streaming call sends carries the messages
\* the request held when ChatCompletionStream was called, the URL of the client
\* and of the endpoint, and the headers of the client's key, whatever the caller
\* does to its request value and to the client afterwards
C22_SnapshotAtCall ==
  \A i \in Exchanged :
    method = StreamMethod =>
      /\ exchanges[i].req.body.messages = CallMessages
      /\ exchanges[i].req.url = c.baseURL \o Path(StreamMethod)
      /\ exchanges[i].req.header = setHeaders(c.apiKey)

\* the two probes
Probes == {"Health", "Ready"}

\* C23: Health and Ready that have returned after a response hold, when the status
\* was 200 or 503, the decoded response and no error, or a decode error only if
\* the body does not decode or its read was cut by cancellation; when the status
\* was any other they hold no result and an APIError with that status
C23_ProbesAccept503 ==
  (method \in Probes /\ Returned /\ call.bodyRead) =>
    IF status \in {200, 503}
    THEN \/ /\ call.result = [kind |-> "response", StatusCode |-> status]
            /\ call.err = NoError
         \/ /\ ~call.decodable \/ ctxDone
            /\ call.result = NoResult
            /\ call.err = Errorf("decode response")
    ELSE /\ call.result = NoResult
         /\ call.err = parseError(status, errBody)
         /\ call.err.kind = "APIError"
         /\ call.err.StatusCode = status

\* Health answered 503 with a body that decodes
C23_Witness ==
  /\ method = "Health"
  /\ status = 503
  /\ Returned
  /\ call.result = [kind |-> "response", StatusCode |-> 503]
  /\ call.err = NoError

\* s ends with a slash
EndsWithSlash(s) == s # <<>> /\ s[Len(s)] = "/"

\* C24: the client stores the base URL it was made with less its trailing slashes
\* ("host/" is stored as "host"), and the URL of every request is the stored base
\* URL followed by the path, with one slash and no more where the two meet
C24_TrimmedBaseURL ==
  /\ ~EndsWithSlash(c.baseURL)
  /\ IsPrefix(c.baseURL, rawURL)
  /\ \A i \in (Len(c.baseURL) + 1)..Len(rawURL) : rawURL[i] = "/"
  /\ rawURL = <<"host", "/">> => c.baseURL = <<"host">>
  /\ \A i \in Exchanged :
       LET url == exchanges[i].req.url
           n == Len(c.baseURL)
       IN  /\ url = c.baseURL \o Path(method)
           /\ url[n + 1] = "/"
           /\ url[n + 2] # "/"
           /\ ~EndsWithSlash(SubSeq(url, 1, n))

\* a request of a client that was made with "host/"
C24_Witness ==
  /\ rawURL = <<"host", "/">>
  /\ c.baseURL = <<"host">>
  /\ method = "ListModels"
  /\ Len(exchanges) = 1
  /\ exchanges[1].req.url = <<"host", "/", "v1", "/", "models">>

\* the return statements that leave an error behind, or follow cancellation
FailedExits == {"marshal", "create", "send", "status", "readerr", "cancel"}

\* the state of the goroutine in the terms VALIDATING, STREAMING, DONE, FAILED: it
\* validates until the status check has passed, streams while it is in the loop,
\* and has ended, failed or not, once it has taken a return
Phase ==
  IF exit = "none"
  THEN IF pc \in {"scan", "offer"} THEN "STREAMING" ELSE "VALIDATING"
  ELSE IF exit \in FailedExits THEN "FAILED" ELSE "DONE"

PhaseSteps ==
  {<<"VALIDATING", "VALIDATING">>, <<"VALIDATING", "STREAMING">>,
   <<"VALIDATING", "FAILED">>, <<"STREAMING", "STREAMING">>,
   <<"STREAMING", "DONE">>, <<"STREAMING", "FAILED">>,
   <<"DONE", "DONE">>, <<"FAILED", "FAILED">>}

\* the goroutine has read the sentinel line
SentinelRead == pos > 0 /\ wire[pos] = DoneLine

\* the body has ended after its last line
BodyEnded == pos = Len(wire) /\ ending = "eof"

\* no line is read and no chunk sent before the status was found to be 200
ValidatedBeforeRead ==
  /\ [](Phase = "VALIDATING" => (pos = 0 /\ sent = <<>>))
  /\ [][(Phase = "VALIDATING" /\ Phase' = "STREAMING") =>
          (pc = "status" /\ StatusIsOK(status))]_vars

\* the states follow one another as the machine says
AlongTheMachine ==
  [][\E step \in PhaseSteps : step[1] = Phase /\ step[2] = Phase']_vars

\* after DONE and after FAILED nothing is read, nothing is sent and the state stays
TerminalStates ==
  [][(Phase \in {"DONE", "FAILED"}) =>
        /\ Phase' = Phase
        /\ exit' = exit
        /\ pos' = pos
        /\ sent' = sent
        /\ errsSent' = errsSent]_vars

\* C25 as stated: the goroutine moves only along VALIDATING -> STREAMING ->
\* {DONE, FAILED}, reads nothing before the status is validated, does nothing
\* after DONE and FAILED, and is in DONE only after it read the sentinel
C25_DoneOnlyViaSentinel ==
  /\ ValidatedBeforeRead
  /\ AlongTheMachine
  /\ TerminalStates
  /\ [](Phase = "DONE" => SentinelRead)

\* C25: the goroutine moves only along VALIDATING -> STREAMING -> {DONE, FAILED},
\* reads nothing before the status is validated, does nothing after DONE and
\* FAILED, and is in DONE only after it read the sentinel or after the body ended
\* without one
C25_StateMachine ==
  /\ ValidatedBeforeRead
  /\ AlongTheMachine
  /\ TerminalStates
  /\ [](Phase = "DONE" => (SentinelRead \/ (BodyEnded /\ exit = "eof")))

\* a stream of one frame whose body ended without the sentinel is over, with no
\* error
C25_Witness ==
  /\ Phase = "DONE"
  /\ ~SentinelRead
  /\ BodyEnded
  /\ wire = <<FrameLine(Hello)>>
  /\ sent = <<[Content |-> Hello]>>
  /\ errsSent = <<>>
  /\ pc = "done"

\* a blank line, or a line that does not start with "data: "
Ignored(line) == line = <<>> \/ ~HasPrefix(line, DataPrefix)

\* the lines of w that are not ignored, in order
Kept(w) == SelectSeq(w, LAMBDA line : ~Ignored(line))

\* C26: when the scanner returns a blank line or a line that does not start with
\* "data: ", the loop goes on to the next read with nothing sent on either
\* channel and no return taken; and a stream that was read to its sentinel or to
\* its end has sent the frames of its other lines, as if the line were not there
C26_IgnoredLines ==
  /\ [][(pc = "scan" /\ pos' = pos + 1 /\ Ignored(wire[pos'])) =>
          /\ pc' = "scan"
          /\ chunk' = NoChunk
          /\ sent' = sent
          /\ errsSent' = errsSent
          /\ UNCHANGED <<chunks, errs, exit>>]_vars
  /\ [](exit \in {"sentinel", "eof"} =>
          (sent = FramesBeforeDone(Kept(wire)) /\ errsSent = <<>>))

\* a line "data:{H}" without the space between two frames: both frames arrived
C26_Witness ==
  /\ wire = <<FrameLine(Hello), NoSpaceLine, FrameLine(Empty)>>
  /\ exit = "eof"
  /\ pc = "done"
  /\ received = <<[Content |-> Hello], [Content |-> Empty]>>
  /\ errsSent = <<>>

\* C27 as stated: every exchange of a streaming call runs on a client without a
\* timeout that is not the client's configured one, and every exchange of a
\* synchronous call runs on the client's configured one, which has a timeout
C27_BoundedAndUnbounded ==
  \A i \in Exchanged :
    IF method = StreamMethod
    THEN /\ exchanges[i].client.Timeout = NoTimeout
         /\ exchanges[i].client.id # c.httpClient.id
    ELSE /\ exchanges[i].client = c.httpClient
         /\ exchanges[i].client.id # streamClient.id
         /\ exchanges[i].client.Timeout # NoTimeout

\* C27: every exchange of a streaming call runs on the goroutine's own client,
\* which has no timeout and is never the client's configured one, and every
\* exchange of a synchronous call runs on the client's configured one, which has
\* the timeout of five minutes as long as the caller has not installed another
C27_TransportByCallKind ==
  \A i \in Exchanged :
    IF method = StreamMethod
    THEN /\ exchanges[i].client = streamClient
         /\ exchanges[i].client.Timeout = NoTimeout
         /\ exchanges[i].client.id # c.httpClient.id
    ELSE /\ exchanges[i].client = c.httpClient
         /\ exchanges[i].client.id # streamClient.id
         /\ c.httpClient.id = "NewClient" => exchanges[i].client.Timeout = DefaultTimeout

\* a stream of a client on which the caller installed its own HTTP client
C27_Witness ==
  /\ method = StreamMethod
  /\ c.httpClient.id = "custom"
  /\ Len(exchanges) = 1
  /\ exchanges[1].client = streamClient

\* C28: no request of Health and of Ready carries an Authorization header or a
\* Content-Type header, with a key on the client and without
C28_ProbesWithoutHeaders ==
  method \in Probes =>
    \A i \in Exchanged :
      /\ "Authorization" \notin DOMAIN exchanges[i].req.header
      /\ "Content-Type" \notin DOMAIN exchanges[i].req.header

\* Health went out from a client that has a key
C28_Witness ==
  /\ method = "Health"
  /\ c.apiKey = "test-key"
  /\ Len(exchanges) = 1
  /\ exchanges[1].req.header = NoHeader
  /\ exchanges[1].req.url = c.baseURL \o <<"/", "health">>

\* C29: when the goroutine keeps running and the body's lines and its end keep
\* arriving, a streaming call whose consumer keeps receiving from chunks, or whose
\* context is cancelled at some time, reaches the end of its goroutine with both
\* channels closed
C29_EventuallyClosed ==
  (WF_vars(RecvChunk) \/ <>ctxDone) => <>(pc = "done" /\ BothClosed)

\* a stream of one frame more than chunks holds was sent to its sentinel
C29_Witness ==
  /\ wire = LongWire
  /\ exit = "sentinel"
  /\ Len(sent) = ChunksCap + 1
  /\ ~ctxDone
  /\ pc = "done"
  /\ BothClosed

\* C30: at most one error is ever sent on errs, and until the goroutine has taken
\* a return the buffer of errs is empty and errs is open, so the one send finds
\* room without any receive by the consumer
C30_ErrSendNeverBlocks ==
  /\ Len(errsSent) <= 1
  /\ exit = "none" => (errs.buf = <<>> /\ ~errs.closed /\ errsSent = <<>>)
  /\ errsReceived = <<>> => errs.buf = errsSent

\* the goroutine sent its error and ran to its end, and nothing was received
C30_Witness ==
  /\ pc = "done"
  /\ Len(errsSent) = 1
  /\ errs.buf = errsSent
  /\ errsReceived = <<>>
  /\ BothClosed

\* the return statements that follow errs <- err
ErrorExits == FailedExits \ {"cancel"}

\* C31: the deferred calls run in one order on every return: the response body,
\* when there is one, is closed before errs, and errs before chunks; so once
\* chunks is closed errs is closed, nothing more is sent on errs, and the error
\* of a failed call has been sent and is in the buffer of errs or was received
C31_CloseOrder ==
  /\ [](errs.closed => (Responded => bodyClosed))
  /\ [](chunks.closed => errs.closed)
  /\ [](chunks.closed =>
          /\ exit \in ErrorExits <=> Len(errsSent) = 1
          /\ exit \notin ErrorExits => errsSent = <<>>
          /\ errsReceived \o errs.buf = errsSent)
  /\ [][chunks.closed => (errsSent' = errsSent /\ errs'.closed /\ bodyClosed' = bodyClosed)]_vars
  /\ [][(~errs.closed /\ errs'.closed) => ~chunks.closed]_vars
  /\ [][(~bodyClosed /\ bodyClosed') => (~errs.closed /\ ~chunks.closed)]_vars

\* a stream failed while it was read; its body and both channels are closed and
\* the error waits in errs
C31_Witness ==
  /\ exit = "readerr"
  /\ sent # <<>>
  /\ bodyClosed
  /\ BothClosed
  /\ errs.buf = <<Errorf("read stream")>>
  /\ errsReceived = <<>>

\* C32: when the consumer that runs the documented select loop has left the
\* loop, it has received, and so reported, every error the call sent on errs
C32_EveryErrorReported ==
  loop # "select" => errsReceived = errsSent

\* no line of the body carries the sentinel
NoSentinel(w) == \A i \in 1..Len(w) : w[i] # DoneLine

\* C33: a success response whose body ends without a sentinel line ends as a
\* stream with a sentinel does: no error is ever sent, and once the goroutine is
\* done every frame of the body was sent on chunks, in order, none is lost
\* between the channel and the consumer, and the body and both channels are
\* closed. A call that is cancelled is covered when it still reaches the end of
\* the body; otherwise the read it has pending fails.
C33_EOFEndsNormally ==
  /\ (Responded /\ status = StatusOK /\ NoSentinel(wire) /\ ending = "eof" /\ ~ctxDone) =>
        /\ errsSent = <<>>
        /\ ~panicked
        /\ exit \in {"none", "eof"}
        /\ pc = "done" => exit = "eof"
  /\ exit = "eof" =>
        /\ NoSentinel(wire)
        /\ pos = Len(wire)
        /\ sent = FramesBeforeDone(wire)
        /\ received \o chunks.buf = sent
        /\ errsSent = <<>>
        /\ pc = "done" => (BothClosed /\ bodyClosed)

\* two frames and then the end of the body: both were received, no error
C33_Witness ==
  /\ exit = "eof"
  /\ pc = "done"
  /\ Len(wire) >= 2
  /\ Len(received) = 2
  /\ received = FramesBeforeDone(wire)
  /\ errsSent = <<>>
  /\ BothClosed

\* the first line of w that carries the sentinel (0: none)
FirstSentinel(w) ==
  IF NoSentinel(w) THEN 0
  ELSE CHOOSE i \in 1..Len(w) : w[i] = DoneLine /\ NoSentinel(SubSeq(w, 1, i - 1))

\* C34: the goroutine never reads past the first sentinel line. Once it has read
\* it, the scanner returns no further line, nothing more is sent on chunks and
\* nothing at all on errs: the chunks sent are the frames before the sentinel,
\* whatever frames, corrupt lines or read failure follow it in the body.
C34_NothingAfterSentinel ==
  /\ [](FirstSentinel(wire) # 0 => pos <= FirstSentinel(wire))
  /\ []((pos > 0 /\ pos = FirstSentinel(wire)) =>
          /\ exit = "sentinel"
          /\ sent = FramesBeforeDone(SubSeq(wire, 1, pos))
          /\ errsSent = <<>>)
  /\ [][(pos > 0 /\ pos = FirstSentinel(wire)) =>
          (pos' = pos /\ sent' = sent /\ errsSent' = errsSent)]_vars

\* the sentinel was read and the call is over; a frame and then a failed read
\* followed the sentinel in the body
C34_Witness ==
  /\ pc = "done"
  /\ exit = "sentinel"
  /\ pos < Len(wire)
  /\ IsFrameLine(wire[pos + 1])
  /\ ending = "err"
  /\ sent = <<>>
  /\ errsSent = <<>>

\* the goroutine waits in the select with chunks full and the context live
Blocked ==
  /\ wire = LongWire
  /\ pc = "offer"
  /\ Len(chunks.buf) = ChunksCap
  /\ ~ctxDone

IsAPIErrorWith(e, statusCode) ==
  /\ e # NoError
  /\ e.kind = "APIError"
  /\ e.StatusCode = statusCode
  /\ e \notin WrappedErrors

\* C36: whatever the body of a non-success response is, the error envelope, JSON
\* without an "error" member, text that is not JSON or nothing, the error that
\* parseError gives is a non-nil *APIError with the status of the response, for
\* the synchronous methods and for the stream
C36_AlwaysAPIError ==
  /\ \A sc \in Statuses, b \in ErrBodies : IsAPIErrorWith(parseError(sc, b), sc)
  /\ SyncRejected => IsAPIErrorWith(call.err, status)
  /\ StreamRejected =>
        /\ Len(errsSent) = 1
        /\ IsAPIErrorWith(errsSent[1], status)

\* the stream answered 500 with an empty body sent an APIError with status 500
C36_Witness ==
  /\ method = StreamMethod
  /\ status = 500
  /\ errBody = BodyEmpty
  /\ StreamRejected
  /\ Len(errsSent) = 1
  /\ errsSent[1].kind = "APIError"
  /\ errsSent[1].StatusCode = 500

====
